---- MODULE Spec2Model ----
(***************************************************************************)
(* A model of simplelru.LRUWithAccounting (lru_accounting.go): an LRU      *)
(* cache whose capacity is measured by a caller-supplied accounting        *)
(* function.  The cache is single-threaded; one public operation runs at a *)
(* time.  Every operation is one atomic action, except Add, whose eviction *)
(* loop (evictIfNeeded) is unrolled one iteration per step so that its     *)
(* termination can be examined.                                            *)
(***************************************************************************)
EXTENDS Integers, Sequences, FiniteSets, TLC

\* Largest limit handed to the constructor or to Resize.
MaxLimit == 3

\* Keys are Go strings and values Go byte slices, as in the tests.
KeySet == {"", "a", "bb"}
ValueSet == {"", "x"}

\* Limits offered to the constructor, and sizes offered to Resize (any int).
LimitInputs == 0 .. MaxLimit
NewInputs == (0 - 1) .. MaxLimit
ResizeInputs == (0 - 1) .. MaxLimit

\* nil, and the Value of a list element that is no longer referenced.
Nil == "nil"
NoEntry == [key |-> Nil, value |-> Nil]

\* The number of list.Element cells the cache can hold at one time, and
\* their addresses.
MaxElems == 10
Handles == 1 .. MaxElems

Range(f) == {f[x] : x \in DOMAIN f}

\* The accounting function the tests supply: len(k) + len(v).
onAccount(key, value) == Len(key) + Len(value)

(***************************************************************************)
(* container/list, as the cache uses it.  A list is the sequence of its    *)
(* elements' addresses, front first.                                       *)
(***************************************************************************)
PushFront(l, e) == <<e>> \o l

ListRemove(l, e) == SelectSeq(l, LAMBDA x : x # e)

\* A MoveToFront that leaves the element where it is.
MoveToFront_stay(l, e) == l

MoveToFront(l, e) == IF e \in Range(l) THEN <<e>> \o ListRemove(l, e) ELSE l

\* A Back() that returns the front element.
Back_front(l) == IF l = <<>> THEN 0 ELSE l[1]

\* Back() is nil (0) on an empty list.
Back(l) == IF l = <<>> THEN 0 ELSE l[Len(l)]

\* A fresh element is a cell neither the list nor the index refers to.
Free(c) == Handles \ (Range(c.evictList) \cup Range(c.items))

NewElement(c) == CHOOSE h \in Free(c) : \A g \in Free(c) : h <= g

(***************************************************************************)
(* The state.                                                              *)
(*   c        the LRUWithAccounting struct: limit, size, evictList, items, *)
(*            onEvict (TRUE when a callback was supplied), with elem, the  *)
(*            entry each list element carries, and calls, the (key, value) *)
(*            pairs handed to onEvict by the operation in progress or last *)
(*            completed (or, with keepCalls, since construction, as the    *)
(*            tests' evictCounter counts them)                             *)
(*   pc       "idle" between operations, "evict" inside Add's loop         *)
(*   evict    evictIfNeeded's local variable                               *)
(*   call     the operation last invoked, its arguments, and Len() before  *)
(*            it removed anything                                          *)
(*   ret      what it returned                                             *)
(*   touched  the present keys, least recently touched first, where a      *)
(*            touch is an insert, an update by Add or a hit by Get         *)
(***************************************************************************)
VARIABLES c, pc, evict, call, ret, touched

vars == <<c, pc, evict, call, ret, touched>>

NoRet == [ok |-> FALSE, key |-> Nil, value |-> Nil, n |-> 0, keys |-> <<>>]

\* len is Len() when the operation was invoked or, for Add, right after its
\* insert/update step (before the eviction loop).
Call(op, key, value, n, len) ==
    [op |-> op, key |-> key, value |-> value, size |-> n, len |-> len]

\* A constructor that rejects only negative limits.
NewLRUWithAccounting_allowZero(lim, cb) ==
    IF lim < 0
    THEN [err |-> TRUE, c |-> Nil]
    ELSE [err |-> FALSE,
          c |-> [limit |-> lim, size |-> 0, evictList |-> <<>>,
                 items |-> [k \in {} |-> 0], onEvict |-> cb,
                 elem |-> [h \in Handles |-> NoEntry], calls |-> <<>>,
                 keepCalls |-> FALSE]]

\* NewLRUWithAccounting: an error for limit <= 0, else an empty cache.
NewLRUWithAccounting(lim, cb) ==
    IF lim <= 0
    THEN [err |-> TRUE, c |-> Nil]
    ELSE [err |-> FALSE,
          c |-> [limit |-> lim, size |-> 0, evictList |-> <<>>,
                 items |-> [k \in {} |-> 0], onEvict |-> cb,
                 elem |-> [h \in Handles |-> NoEntry], calls |-> <<>>,
                 keepCalls |-> FALSE]]

\* The keys of the list, front (most recently used) first.
ListKeys(cc) == [i \in 1 .. Len(cc.evictList) |-> cc.elem[cc.evictList[i]].key]

\* A new operation starts with an empty record of onEvict calls, unless the
\* callback keeps its record across operations.
Begin(cc) == IF cc.keepCalls THEN cc ELSE [cc EXCEPT !.calls = <<>>]

\* touched after touching key (none for Nil), restricted to the keys present.
Touch(t, key, cc) ==
    LET moved == IF key = Nil THEN t
                 ELSE Append(SelectSeq(t, LAMBDA k : k # key), key)
    IN  SelectSeq(moved, LAMBDA k : k \in DOMAIN cc.items)

\* removeElement that forgets to subtract the entry's weight.
removeElement_noAccount(cc, e) ==
    LET kv == cc.elem[e] IN
    [cc EXCEPT !.evictList = ListRemove(cc.evictList, e),
               !.items = [k \in DOMAIN cc.items \ {kv.key} |-> cc.items[k]],
               !.calls = IF cc.onEvict THEN Append(cc.calls, <<kv.key, kv.value>>)
                         ELSE cc.calls,
               !.elem = [cc.elem EXCEPT ![e] = NoEntry]]

\* removeElement that forgets to delete the key from the index.
removeElement_keepIndex(cc, e) ==
    LET kv == cc.elem[e] IN
    [cc EXCEPT !.evictList = ListRemove(cc.evictList, e),
               !.calls = IF cc.onEvict THEN Append(cc.calls, <<kv.key, kv.value>>)
                         ELSE cc.calls,
               !.size = cc.size - onAccount(kv.key, kv.value)]

\* removeElement: unlink e, drop its key from the index, notify, account.
removeElement(cc, e) ==
    LET kv == cc.elem[e] IN
    [cc EXCEPT !.evictList = ListRemove(cc.evictList, e),
               !.items = [k \in DOMAIN cc.items \ {kv.key} |-> cc.items[k]],
               !.calls = IF cc.onEvict THEN Append(cc.calls, <<kv.key, kv.value>>)
                         ELSE cc.calls,
               !.size = cc.size - onAccount(kv.key, kv.value),
               !.elem = [cc.elem EXCEPT ![e] = NoEntry]]

\* removeOldest that takes the front (most recently used) element.
removeOldest_newest(cc) ==
    IF cc.evictList # <<>> THEN removeElement(cc, cc.evictList[1]) ELSE cc

\* removeOldest: remove the back element, if there is one.
removeOldest(cc) ==
    LET ent == Back(cc.evictList) IN
    IF ent # 0 THEN removeElement(cc, ent) ELSE cc

\* The state a call of the constructor leaves: the cache, or nil and an
\* error, after which there is nothing to operate on.
Construct(lim, cb) ==
    LET r == NewLRUWithAccounting(lim, cb) IN
    /\ c = r.c
    /\ pc = IF r.err THEN "failed" ELSE "idle"
    /\ evict = FALSE
    /\ call = Call("New", Nil, Nil, lim, 0)
    /\ ret = [NoRet EXCEPT !.ok = ~r.err]
    /\ touched = <<>>

Init ==
    \E lim \in LimitInputs, cb \in BOOLEAN :
        /\ ~NewLRUWithAccounting(lim, cb).err
        /\ Construct(lim, cb)

\* An off-by-one in the eviction flag.
evictIfNeeded_evict_atLimit(cc) == cc.size >= cc.limit

\* evictIfNeeded's first line: whether an eviction is due.
evictIfNeeded_evict(cc) == cc.size > cc.limit

\* A loop condition that stops at one remaining entry.
evictIfNeeded_continue_keepLast(cc) ==
    cc.size > cc.limit /\ Len(cc.evictList) > 1

\* A loop condition with an off-by-one: it evicts at the limit too.
evictIfNeeded_continue_atLimit(cc) == cc.size >= cc.limit

\* evictIfNeeded's loop condition.
evictIfNeeded_continue(cc) == cc.size > cc.limit

\* Add whose update path adds the new weight without subtracting the old.
Add_noSubtract(key, value) ==
    /\ pc = "idle"
    /\ LET c0 == Begin(c)
           c1 == IF key \in DOMAIN c0.items
                 THEN LET ent == c0.items[key]
                          old == c0.elem[ent]
                      IN  [c0 EXCEPT
                             !.evictList = MoveToFront(c0.evictList, ent),
                             !.elem = [c0.elem EXCEPT ![ent].value = value],
                             !.size = c0.size + onAccount(old.key, value)]
                 ELSE LET ent == NewElement(c0)
                      IN  [c0 EXCEPT
                             !.evictList = PushFront(c0.evictList, ent),
                             !.elem = [c0.elem EXCEPT
                                          ![ent] = [key |-> key, value |-> value]],
                             !.items = [k \in DOMAIN c0.items \cup {key} |->
                                          IF k = key THEN ent ELSE c0.items[k]],
                             !.size = c0.size + onAccount(key, value)]
       IN  /\ (key \notin DOMAIN c0.items) => Free(c0) # {}
           /\ c' = c1
           /\ evict' = evictIfNeeded_evict(c1)
           /\ touched' = Touch(touched, key, c1)
    /\ pc' = "evict"
    /\ call' = Call("Add", key, value, 0, Len(c'.evictList))
    /\ ret' = NoRet

\* Add, up to and including the first line of evictIfNeeded.
Add(key, value) ==
    /\ pc = "idle"
    /\ LET c0 == Begin(c)
           c1 == IF key \in DOMAIN c0.items
                 THEN LET ent == c0.items[key]
                          old == c0.elem[ent]
                      IN  [c0 EXCEPT
                             !.evictList = MoveToFront(c0.evictList, ent),
                             !.elem = [c0.elem EXCEPT ![ent].value = value],
                             !.size = (c0.size - onAccount(old.key, old.value))
                                         + onAccount(old.key, value)]
                 ELSE LET ent == NewElement(c0)
                      IN  [c0 EXCEPT
                             !.evictList = PushFront(c0.evictList, ent),
                             !.elem = [c0.elem EXCEPT
                                          ![ent] = [key |-> key, value |-> value]],
                             !.items = [k \in DOMAIN c0.items \cup {key} |->
                                          IF k = key THEN ent ELSE c0.items[k]],
                             !.size = c0.size + onAccount(key, value)]
       IN  /\ (key \notin DOMAIN c0.items) => Free(c0) # {}
           /\ c' = c1
           /\ evict' = evictIfNeeded_evict(c1)
           /\ touched' = Touch(touched, key, c1)
    /\ pc' = "evict"
    /\ call' = Call("Add", key, value, 0, Len(c'.evictList))
    /\ ret' = NoRet

\* One iteration of evictIfNeeded's loop.
evictIfNeeded_loop ==
    /\ pc = "evict"
    /\ evictIfNeeded_continue(c)
    /\ c' = removeOldest(c)
    /\ touched' = Touch(touched, Nil, c')
    /\ UNCHANGED <<pc, evict, call, ret>>

\* The loop's exit: Add returns evict.
evictIfNeeded_return ==
    /\ pc = "evict"
    /\ ~evictIfNeeded_continue(c)
    /\ pc' = "idle"
    /\ ret' = [NoRet EXCEPT !.ok = evict]
    /\ UNCHANGED <<c, evict, call, touched>>

\* Get that returns the value without moving the element.
Get_noPromote(key) ==
    /\ pc = "idle"
    /\ call' = Call("Get", key, Nil, 0, Len(c.evictList))
    /\ LET c0 == Begin(c) IN
       /\ c' = c0
       /\ ret' = IF key \in DOMAIN c0.items
                 THEN [NoRet EXCEPT !.ok = TRUE,
                                    !.value = c0.elem[c0.items[key]].value]
                 ELSE NoRet
       /\ touched' = Touch(touched, IF key \in DOMAIN c0.items THEN key ELSE Nil, c0)
    /\ UNCHANGED <<pc, evict>>

\* Get: a hit moves the element to the front and returns its value.
Get(key) ==
    /\ pc = "idle"
    /\ call' = Call("Get", key, Nil, 0, Len(c.evictList))
    /\ LET c0 == Begin(c) IN
       IF key \in DOMAIN c0.items
       THEN LET ent == c0.items[key]
                c1 == [c0 EXCEPT !.evictList = MoveToFront(c0.evictList, ent)]
            IN  /\ c' = c1
                /\ ret' = IF c0.elem[ent] = NoEntry THEN NoRet
                          ELSE [NoRet EXCEPT !.ok = TRUE,
                                             !.value = c0.elem[ent].value]
                /\ touched' = Touch(touched, key, c1)
       ELSE /\ c' = c0
            /\ ret' = NoRet
            /\ touched' = Touch(touched, Nil, c0)
    /\ UNCHANGED <<pc, evict>>

\* Contains: presence in the index, nothing else.
Contains(key) ==
    /\ pc = "idle"
    /\ call' = Call("Contains", key, Nil, 0, Len(c.evictList))
    /\ c' = Begin(c)
    /\ ret' = [NoRet EXCEPT !.ok = (key \in DOMAIN c.items)]
    /\ touched' = Touch(touched, Nil, c')
    /\ UNCHANGED <<pc, evict>>

\* Peek that moves the element to the front, as Get does.
Peek_promote(key) ==
    /\ pc = "idle"
    /\ call' = Call("Peek", key, Nil, 0, Len(c.evictList))
    /\ LET c0 == Begin(c) IN
       IF key \in DOMAIN c0.items
       THEN /\ c' = [c0 EXCEPT
                       !.evictList = MoveToFront(c0.evictList, c0.items[key])]
            /\ ret' = [NoRet EXCEPT !.ok = TRUE,
                                    !.value = c0.elem[c0.items[key]].value]
       ELSE /\ c' = c0
            /\ ret' = NoRet
    /\ touched' = Touch(touched, Nil, c')
    /\ UNCHANGED <<pc, evict>>

\* Peek: the value of a present key, without moving it.
Peek(key) ==
    /\ pc = "idle"
    /\ call' = Call("Peek", key, Nil, 0, Len(c.evictList))
    /\ c' = Begin(c)
    /\ ret' = IF key \in DOMAIN c.items
              THEN [NoRet EXCEPT !.ok = TRUE, !.value = c.elem[c.items[key]].value]
              ELSE NoRet
    /\ touched' = Touch(touched, Nil, c')
    /\ UNCHANGED <<pc, evict>>

\* Remove that reports a removal whether or not the key was there.
Remove_alwaysTrue(key) ==
    /\ pc = "idle"
    /\ call' = Call("Remove", key, Nil, 0, Len(c.evictList))
    /\ LET c0 == Begin(c) IN
       /\ c' = IF key \in DOMAIN c0.items
                THEN removeElement(c0, c0.items[key]) ELSE c0
       /\ ret' = [NoRet EXCEPT !.ok = TRUE]
    /\ touched' = Touch(touched, Nil, c')
    /\ UNCHANGED <<pc, evict>>

\* Remove that takes the oldest entry instead of the key's.
Remove_oldest(key) ==
    /\ pc = "idle"
    /\ call' = Call("Remove", key, Nil, 0, Len(c.evictList))
    /\ LET c0 == Begin(c) IN
       IF key \in DOMAIN c0.items
       THEN /\ c' = removeOldest(c0)
            /\ ret' = [NoRet EXCEPT !.ok = TRUE]
       ELSE /\ c' = c0
            /\ ret' = NoRet
    /\ touched' = Touch(touched, Nil, c')
    /\ UNCHANGED <<pc, evict>>

\* Remove: remove the element of a present key.
Remove(key) ==
    /\ pc = "idle"
    /\ call' = Call("Remove", key, Nil, 0, Len(c.evictList))
    /\ LET c0 == Begin(c) IN
       IF key \in DOMAIN c0.items
       THEN /\ c' = removeElement(c0, c0.items[key])
            /\ ret' = [NoRet EXCEPT !.ok = TRUE]
       ELSE /\ c' = c0
            /\ ret' = NoRet
    /\ touched' = Touch(touched, Nil, c')
    /\ UNCHANGED <<pc, evict>>

\* RemoveOldest: remove the back element and return its entry.
RemoveOldest ==
    /\ pc = "idle"
    /\ call' = Call("RemoveOldest", Nil, Nil, 0, Len(c.evictList))
    /\ LET c0 == Begin(c)
           ent == Back(c0.evictList)
       IN  IF ent # 0
           THEN /\ c' = removeElement(c0, ent)
                /\ ret' = [NoRet EXCEPT !.ok = TRUE, !.key = c0.elem[ent].key,
                                        !.value = c0.elem[ent].value]
           ELSE /\ c' = c0
                /\ ret' = NoRet
    /\ touched' = Touch(touched, Nil, c')
    /\ UNCHANGED <<pc, evict>>

\* GetOldest: the back element's entry.
GetOldest ==
    /\ pc = "idle"
    /\ call' = Call("GetOldest", Nil, Nil, 0, Len(c.evictList))
    /\ c' = Begin(c)
    /\ LET ent == Back(c.evictList) IN
       ret' = IF ent # 0
              THEN [NoRet EXCEPT !.ok = TRUE, !.key = c.elem[ent].key,
                                 !.value = c.elem[ent].value]
              ELSE NoRet
    /\ touched' = Touch(touched, Nil, c')
    /\ UNCHANGED <<pc, evict>>

\* Keys that walks the list from the front.
KeysOf_newestFirst(cc) ==
    LET l == cc.evictList IN
    [i \in 1 .. Cardinality(DOMAIN cc.items) |->
        IF i <= Len(l) THEN cc.elem[l[i]].key ELSE Nil]

\* The slice Keys builds: len(items) slots, filled walking the list from the
\* back; a slot the walk does not reach stays nil.
KeysOf(cc) ==
    LET l == cc.evictList IN
    [i \in 1 .. Cardinality(DOMAIN cc.items) |->
        IF i <= Len(l) THEN cc.elem[l[Len(l) + 1 - i]].key ELSE Nil]

Keys ==
    /\ pc = "idle"
    /\ call' = Call("Keys", Nil, Nil, 0, Len(c.evictList))
    /\ c' = Begin(c)
    /\ ret' = [NoRet EXCEPT !.keys = KeysOf(c)]
    /\ touched' = Touch(touched, Nil, c')
    /\ UNCHANGED <<pc, evict>>

\* Len: the length of the list.
LenOf(cc) == Len(cc.evictList)

CacheLen ==
    /\ pc = "idle"
    /\ call' = Call("Len", Nil, Nil, 0, Len(c.evictList))
    /\ c' = Begin(c)
    /\ ret' = [NoRet EXCEPT !.n = LenOf(c)]
    /\ touched' = Touch(touched, Nil, c')
    /\ UNCHANGED <<pc, evict>>

\* AccountingSize: the size field.
AccountingSize ==
    /\ pc = "idle"
    /\ call' = Call("AccountingSize", Nil, Nil, 0, Len(c.evictList))
    /\ c' = Begin(c)
    /\ ret' = [NoRet EXCEPT !.n = c.size]
    /\ touched' = Touch(touched, Nil, c')
    /\ UNCHANGED <<pc, evict>>

\* Resize's loop: removeOldest, n times.
RECURSIVE removeOldestTimes(_, _)
removeOldestTimes(cc, n) ==
    IF n <= 0 THEN cc ELSE removeOldestTimes(removeOldest(cc), n - 1)

\* Resize's diff: Len() - size, or 0 when that is negative.
ResizeDiff(cc, n) == IF LenOf(cc) - n < 0 THEN 0 ELSE LenOf(cc) - n

Resize(n) ==
    /\ pc = "idle"
    /\ call' = Call("Resize", Nil, Nil, n, Len(c.evictList))
    /\ LET c0 == Begin(c)
           diff == ResizeDiff(c0, n)
       IN  /\ c' = [removeOldestTimes(c0, diff) EXCEPT !.limit = n]
           /\ ret' = [NoRet EXCEPT !.n = diff]
    /\ touched' = Touch(touched, Nil, c')
    /\ UNCHANGED <<pc, evict>>

\* Purge that clears the cache without notifying.
Purge_noNotify ==
    /\ pc = "idle"
    /\ call' = Call("Purge", Nil, Nil, 0, Len(c.evictList))
    /\ c' = [c EXCEPT !.calls = <<>>,
                      !.items = [k \in {} |-> 0],
                      !.evictList = <<>>,
                      !.elem = [h \in Handles |-> NoEntry],
                      !.size = 0]
    /\ ret' = NoRet
    /\ touched' = <<>>
    /\ UNCHANGED <<pc, evict>>

\* The orders in which a range over the index can visit its keys.
Orders(S) == {o \in [1 .. Cardinality(S) -> S] : Range(o) = S}

\* Purge that forgets to zero the size.
Purge_keepSize ==
    /\ pc = "idle"
    /\ call' = Call("Purge", Nil, Nil, 0, Len(c.evictList))
    /\ \E o \in Orders(DOMAIN c.items) :
          c' = [c EXCEPT
                  !.calls = IF c.onEvict
                            THEN [i \in DOMAIN o |->
                                    <<o[i], c.elem[c.items[o[i]]].value>>]
                            ELSE <<>>,
                  !.items = [k \in {} |-> 0],
                  !.evictList = <<>>,
                  !.elem = [h \in Handles |-> NoEntry]]
    /\ ret' = NoRet
    /\ touched' = Touch(touched, Nil, c')
    /\ UNCHANGED <<pc, evict>>

\* Purge: notify for every key of the index, in the order the range visits
\* them, empty the index, re-initialise the list, zero the size.
Purge ==
    /\ pc = "idle"
    /\ call' = Call("Purge", Nil, Nil, 0, Len(c.evictList))
    /\ \E o \in Orders(DOMAIN c.items) :
          c' = [c EXCEPT
                  !.calls = IF c.onEvict
                            THEN [i \in DOMAIN o |->
                                    <<o[i], c.elem[c.items[o[i]]].value>>]
                            ELSE <<>>,
                  !.items = [k \in {} |-> 0],
                  !.evictList = <<>>,
                  !.elem = [h \in Handles |-> NoEntry],
                  !.size = 0]
    /\ ret' = NoRet
    /\ touched' = Touch(touched, Nil, c')
    /\ UNCHANGED <<pc, evict>>

Next ==
    \/ \E key \in KeySet, value \in ValueSet : Add(key, value)
    \/ evictIfNeeded_loop
    \/ evictIfNeeded_return
    \/ \E key \in KeySet : Get(key)
    \/ \E key \in KeySet : Contains(key)
    \/ \E key \in KeySet : Peek(key)
    \/ \E key \in KeySet : Remove(key)
    \/ RemoveOldest
    \/ GetOldest
    \/ Keys
    \/ CacheLen
    \/ AccountingSize
    \/ \E n \in ResizeInputs : Resize(n)
    \/ Purge

Spec == Init /\ [][Next]_vars

\* The same, with the constructor calls that fail.
InitNew == \E lim \in NewInputs, cb \in BOOLEAN : Construct(lim, cb)

SpecNew == InitNew /\ [][Next]_vars

(***************************************************************************)
(* The tests' scripts.  TestLRUWithAccounting adds the keys "0" .. "9",    *)
(* each with its own digits as value (weight 2), to a cache of limit 10;   *)
(* TestLRUWithAccounting_update does the same with limit 20 and then adds  *)
(* each key again with value Sprint(i+100) (weight 4).  Here the limit     *)
(* ranges up to the larger of the two and the first loop also runs with    *)
(* values of length 0 and 2.  The callback counts across operations.  The  *)
(* position in the script is read off the last call.                       *)
(***************************************************************************)
TestLimit == 20

TestKeys == <<"0", "1", "2", "3", "4", "5", "6", "7", "8", "9">>

UpdateValues ==
    <<"100", "101", "102", "103", "104", "105", "106", "107", "108", "109">>

KeyIndex(k) == CHOOSE i \in DOMAIN TestKeys : TestKeys[i] = k

\* The value the first loop adds for key i: kind is its length.
FirstValue(i, kind) ==
    CASE kind = 0 -> ""
      [] kind = 1 -> TestKeys[i]
      [] kind = 2 -> "xx"

InitTest ==
    \E lim \in 1 .. TestLimit, cb \in BOOLEAN :
        /\ c = [NewLRUWithAccounting(lim, cb).c EXCEPT !.keepCalls = TRUE]
        /\ pc = "idle"
        /\ evict = FALSE
        /\ call = Call("New", Nil, Nil, lim, 0)
        /\ ret = [NoRet EXCEPT !.ok = TRUE]
        /\ touched = <<>>

\* The first loop: l.Add(fmt.Sprint(i), []byte(fmt.Sprint(i))).
TestAdd ==
    /\ pc = "idle"
    /\ \E i \in DOMAIN TestKeys, kind \in 0 .. 2 :
          /\ \/ call.op = "New" /\ i = 1
             \/ /\ call.op = "Add"
                /\ Len(call.value) < 3
                /\ kind = Len(call.value)
                /\ i = KeyIndex(call.key) + 1
          /\ Add(TestKeys[i], FirstValue(i, kind))

\* The update loop: l.Add(fmt.Sprint(i), []byte(fmt.Sprint(i+100))).
TestUpdate ==
    /\ pc = "idle"
    /\ call.op = "Add"
    /\ \E i \in DOMAIN TestKeys :
          /\ \/ /\ call.value = call.key
                /\ KeyIndex(call.key) = Len(TestKeys)
                /\ i = 1
             \/ /\ Len(call.value) = 3
                /\ i = KeyIndex(call.key) + 1
          /\ Add(TestKeys[i], UpdateValues[i])

NextTest ==
    \/ TestAdd
    \/ TestUpdate
    \/ evictIfNeeded_loop
    \/ evictIfNeeded_return

SpecTest == InitTest /\ [][NextTest]_vars

\* Both: any sequence of operations on a cache, and the tests' scripts.
InitBoth == Init \/ InitTest

NextBoth ==
    \/ ~c.keepCalls /\ Next
    \/ c.keepCalls /\ NextTest

SpecBoth == InitBoth /\ [][NextBoth]_vars

(***************************************************************************)
(* Properties.                                                             *)
(***************************************************************************)
Present(cc) == DOMAIN cc.items

ValueOf(cc, k) == cc.elem[cc.items[k]].value

\* The sum of the weights of the entries of the index.
RECURSIVE SumWeights(_, _)
SumWeights(cc, S) ==
    IF S = {} THEN 0
    ELSE LET k == CHOOSE x \in S : TRUE
         IN  onAccount(k, ValueOf(cc, k)) + SumWeights(cc, S \ {k})

Mutating == {"Add", "Remove", "RemoveOldest", "Resize", "Purge"}

\* C1: after every public operation, AccountingSize() is the sum of
\* weigh(k, v) over exactly the entries present in the cache.
C1_SizeIsSumOfWeights ==
    pc = "idle" => c.size = SumWeights(c, Present(c))

\* C1's case: an Add that updated or inserted, evicted, and left entries.
C1_Witness ==
    /\ pc = "idle" /\ call.op = "Add" /\ ret.ok
    /\ LenOf(c) >= 1 /\ c.size > 0

\* C2: after every mutating operation total_weight <= limit, except in a
\* cache holding exactly one entry whose own weight exceeds limit.
C2_WithinLimit ==
    (pc = "idle" /\ call.op \in Mutating) =>
        \/ c.size <= c.limit
        \/ /\ LenOf(c) = 1
           /\ \A k \in Present(c) : onAccount(k, ValueOf(c, k)) > c.limit

\* C3 as claimed: an Add whose entry weighs more than limit leaves exactly
\* that one entry in the cache.
C3_OversizedEntryStays ==
    (pc = "idle" /\ call.op = "Add"
        /\ onAccount(call.key, call.value) > c.limit) =>
        (LenOf(c) = 1 /\ call.key \in Present(c))

\* C3 as the code has it: an Add whose entry weighs more than limit evicts
\* every entry, the new one included; the cache is empty when Add returns,
\* and Add returns true.
C3_OversizedEntryEvictsAll ==
    (pc = "idle" /\ call.op = "Add"
        /\ onAccount(call.key, call.value) > c.limit) =>
        /\ LenOf(c) = 0
        /\ Present(c) = {}
        /\ c.size = 0
        /\ ret.ok

\* C3's case: an oversized Add into a cache that held other entries.
C3_Witness ==
    /\ pc = "idle" /\ call.op = "Add"
    /\ onAccount(call.key, call.value) > c.limit
    /\ call.len >= 2

\* C4: the index and the list hold the same keys, each once, every index
\* handle points to the list element carrying its key, and Len() is the
\* number of keys in both.
C4_IndexMatchesList ==
    /\ Present(c) = Range(ListKeys(c))
    /\ \A i, j \in 1 .. Len(c.evictList) :
          i # j => /\ c.evictList[i] # c.evictList[j]
                   /\ ListKeys(c)[i] # ListKeys(c)[j]
    /\ \A k \in Present(c) :
          /\ c.items[k] \in Range(c.evictList)
          /\ c.elem[c.items[k]].key = k
    /\ LenOf(c) = Cardinality(Present(c))
    /\ LenOf(c) = Cardinality(Range(ListKeys(c)))

\* C4's case: a removal from a cache that keeps two entries.
C4_Witness ==
    /\ pc = "idle" /\ call.op = "Remove" /\ ret.ok
    /\ LenOf(c) = 2

\* The keys that leave the cache in a step.
Gone == Present(c) \ Present(c')

\* C5: the entries an Add evicts are the least recently touched ones, one at
\* a time from the least recently used on; no entry is evicted while a less
\* recently touched entry is present.
C5_EvictsLeastRecentlyTouched ==
    [][pc = "evict" =>
          /\ Range(touched) = Present(c)
          /\ Cardinality(Gone) <= 1
          /\ \A k \in Gone : k = Head(touched)]_vars

\* C5's case: Add's loop has evicted two entries and one remains.
C5_Witness ==
    /\ pc = "evict" /\ call.op = "Add"
    /\ call.len - LenOf(c) >= 2
    /\ LenOf(c) >= 1

\* The onEvict calls made in a step.
NewCalls ==
    IF pc = "idle" THEN c'.calls
    ELSE SubSeq(c'.calls, Len(c.calls) + 1, Len(c'.calls))

\* C6: every entry that leaves the cache triggers exactly one onEvict call
\* with its key and current value, and no call is made for a key that stays.
C6_OneCallPerDeparture ==
    [][c.onEvict =>
          /\ Len(NewCalls) = Cardinality(Gone)
          /\ Range(NewCalls) = {<<k, ValueOf(c, k)>> : k \in Gone}]_vars

\* C6's case: a Purge of two or more entries with a callback installed.
C6_Witness ==
    /\ pc = "idle" /\ c.onEvict
    /\ call.op = "Purge" /\ Len(c.calls) >= 2

\* C7: Resize(newLimit) sets limit, removes oldest entries until
\* Len() <= newLimit, and returns the number of entries it removed, which is
\* the number of onEvict calls it made.
C7_ResizeReturnsRemoved ==
    (pc = "idle" /\ call.op = "Resize") =>
        /\ c.limit = call.size
        /\ LenOf(c) <= call.size
        /\ ret.n = call.len - LenOf(c)
        /\ c.onEvict => ret.n = Len(c.calls)

\* C8: the eviction loop of Add terminates: with no entries left it is at
\* its exit (removeOldest changes nothing on an empty list, so a loop that
\* must continue there continues forever).
C8_LoopStopsWhenEmpty ==
    (pc = "evict" /\ c.evictList = <<>>) => ~evictIfNeeded_continue(c)

\* C9: Add returns true exactly when its eviction loop removed an entry:
\* Len() fell below its value after the insert/update step, and onEvict was
\* called.
C9_AddReturnsEvicted ==
    (pc = "idle" /\ call.op = "Add") =>
        /\ ret.ok <=> (LenOf(c) < call.len)
        /\ c.onEvict => (ret.ok <=> c.calls # <<>>)

\* C9's case: an Add that evicted some entries and kept others.
C9_Witness ==
    /\ pc = "idle" /\ call.op = "Add" /\ ret.ok
    /\ LenOf(c) >= 1 /\ c.onEvict

\* The Keys() result with k moved to the most-recently-used end.
Promoted(keys, k) == Append(SelectSeq(keys, LAMBDA x : x # k), k)

Entries(cc) == [i \in 1 .. Len(KeysOf(cc)) |->
                  <<KeysOf(cc)[i], ValueOf(cc, KeysOf(cc)[i])>>]

View(cc) == [entries |-> Entries(cc), keys |-> Present(cc),
             size |-> cc.size, limit |-> cc.limit]

ReadOnly == {"Peek", "Contains", "GetOldest", "Keys", "Len", "AccountingSize"}

\* C11: Peek, Contains, GetOldest, Keys, Len, AccountingSize and a Get of an
\* absent key leave key set, values, recency order, total_weight and limit
\* as they were and call onEvict for nothing.
C11_ReadsChangeNothing ==
    [][(pc = "idle" /\ (\/ call'.op \in ReadOnly
                        \/ call'.op = "Get" /\ call'.key \notin Present(c))) =>
          /\ View(c') = View(c)
          /\ c'.calls = <<>>]_vars

\* C11's case: a Peek that hit a key other than the most recently used one.
C11_Witness ==
    /\ pc = "idle" /\ call.op = "Peek" /\ ret.ok
    /\ LenOf(c) >= 2
    /\ KeysOf(c)[LenOf(c)] # call.key

\* C12: Remove of an absent key returns false and changes nothing; Remove of
\* a present key returns true and leaves the key absent, so that the same
\* Remove repeated at once returns false and a Get that follows finds
\* nothing.
C12_RemoveIdempotent ==
    [][pc = "idle" =>
          /\ (call'.op = "Remove" /\ call'.key \notin Present(c)) =>
                /\ ~ret'.ok
                /\ View(c') = View(c)
                /\ c'.calls = <<>>
          /\ (call'.op = "Remove" /\ call'.key \in Present(c)) =>
                /\ ret'.ok
                /\ call'.key \notin Present(c')
          /\ (call.op = "Remove" /\ ret.ok
                /\ call'.op \in {"Remove", "Get"} /\ call'.key = call.key) =>
                ~ret'.ok]_vars

\* C12's case: a Remove that found nothing to remove in a cache holding
\* other keys, with a callback installed.
C12_Witness ==
    /\ pc = "idle" /\ call.op = "Remove" /\ ~ret.ok
    /\ LenOf(c) >= 2 /\ c.onEvict

\* C13: after Purge, Len() and AccountingSize() are 0, Keys() is empty, no
\* key is found by Get, Peek or Contains, limit is what it was, and an Add
\* that follows inserts its entry.
C13_PurgeEmpties ==
    [][pc = "idle" =>
          /\ call'.op = "Purge" =>
                /\ LenOf(c') = 0
                /\ c'.size = 0
                /\ KeysOf(c') = <<>>
                /\ Present(c') = {}
                /\ c'.limit = c.limit
          /\ (call.op = "Purge"
                /\ call'.op \in {"Get", "Peek", "Contains"}) => ~ret'.ok
          /\ (call.op = "Purge" /\ call'.op = "Add") =>
                /\ Entries(c') = <<(<<call'.key, call'.value>>)>>
                /\ c'.size = onAccount(call'.key, call'.value)]_vars

\* C13's case: a Purge of a full cache.
C13_Witness ==
    /\ pc = "idle" /\ call.op = "Purge"
    /\ call.len = Cardinality(KeySet)
    /\ c.size = 0

\* C14: construction with limit <= 0 fails with an error and returns no
\* cache; with limit > 0 it returns an empty cache (Len() = 0,
\* AccountingSize() = 0) with the given limit.
C14_ConstructorChecksLimit ==
    call.op = "New" =>
        IF call.size <= 0
        THEN /\ pc = "failed"
             /\ ~ret.ok
             /\ c = Nil
        ELSE /\ pc = "idle"
             /\ ret.ok
             /\ LenOf(c) = 0
             /\ Present(c) = {}
             /\ c.size = 0
             /\ c.limit = call.size

\* C14's case: the constructor was called with limit 0.
C14_Witness ==
    /\ call.op = "New" /\ call.size = 0
    /\ pc = "failed"

Max(a, b) == IF a >= b THEN a ELSE b

Min(a, b) == IF a <= b THEN a ELSE b

\* C15: with a uniform weight w <= limit, after the n-th of the inserts of
\* distinct keys into the empty cache exactly the last limit/w keys (rounded
\* down) are present, in insertion order, onEvict has been called
\* max(0, n - limit/w) times in all; limit 10, weight 2 and 10 inserts give
\* AccountingSize() = 10, 5 evictions and the 5 newest keys.
C15_UniformWeightKeepsNewest ==
    (pc = "idle" /\ call.op = "Add" /\ Len(call.value) < 3) =>
        LET n == KeyIndex(call.key)
            w == onAccount(call.key, call.value)
            cap == c.limit \div w
        IN  w <= c.limit =>
              /\ KeysOf(c) = SubSeq(TestKeys, Max(1, n - cap + 1), n)
              /\ LenOf(c) = Min(n, cap)
              /\ c.size = w * Min(n, cap)
              /\ c.onEvict => Len(c.calls) = Max(0, n - cap)
              /\ (c.limit = 10 /\ w = 2 /\ n = 10) =>
                    /\ c.size = 10
                    /\ c.onEvict => Len(c.calls) = 5
                    /\ KeysOf(c) = <<"5", "6", "7", "8", "9">>

\* C15's case: the test's ten inserts of weight 2 under limit 10 are done.
C15_Witness ==
    /\ pc = "idle" /\ call.op = "Add"
    /\ call.key = "9" /\ call.value = "9"
    /\ c.limit = 10 /\ c.onEvict
    /\ Len(c.calls) = 5

\* C16: Keys() returns every present key exactly once, least recently used
\* first, Len() keys in all, and its first element is the key GetOldest()
\* returns.
C16_KeysOldestFirst ==
    (pc = "idle" /\ call.op = "Keys") =>
        /\ ret.keys = touched
        /\ Range(ret.keys) = Present(c)
        /\ Len(ret.keys) = LenOf(c)
        /\ Len(ret.keys) = Cardinality(Present(c))
        /\ ret.keys # <<>> => ret.keys[1] = c.elem[Back(c.evictList)].key

\* C16's case: Keys() on a cache of three keys.
C16_Witness ==
    /\ pc = "idle" /\ call.op = "Keys"
    /\ Len(ret.keys) = 3

\* C17: on a non-empty cache GetOldest returns the least recently used
\* (key, value) and changes nothing, and RemoveOldest removes and returns
\* that entry, subtracts its weight and calls onEvict once; on an empty
\* cache both return not-found and change nothing.
C17_OldestAccess ==
    [][(pc = "idle" /\ call'.op \in {"GetOldest", "RemoveOldest"}) =>
          IF touched = <<>>
          THEN /\ ret' = NoRet
               /\ View(c') = View(c)
               /\ c'.calls = <<>>
          ELSE LET k == Head(touched)
                   v == ValueOf(c, k)
               IN  /\ ret'.ok /\ ret'.key = k /\ ret'.value = v
                   /\ call'.op = "GetOldest" =>
                         /\ View(c') = View(c)
                         /\ c'.calls = <<>>
                   /\ call'.op = "RemoveOldest" =>
                         /\ Entries(c') = Tail(Entries(c))
                         /\ Present(c') = Present(c) \ {k}
                         /\ c'.size = c.size - onAccount(k, v)
                         /\ c'.limit = c.limit
                         /\ c.onEvict => c'.calls = <<(<<k, v>>)>>]_vars

\* C17's case: RemoveOldest took one entry of three, with a callback.
C17_Witness ==
    /\ pc = "idle" /\ call.op = "RemoveOldest" /\ ret.ok
    /\ call.len = 3 /\ LenOf(c) = 2
    /\ c.calls = <<(<<ret.key, ret.value>>)>>

\* C18: Add of a present key updates in place: before the eviction loop
\* Len() is unchanged, total_weight has changed by the difference of the new
\* and the old weight, the key holds the new value and is most recently
\* used, and onEvict was not called; the evictions that follow take the
\* least recently used entry; an Add of a key that is absent (evicted
\* before, say) inserts a new entry; and the update test (limit 20, ten
\* entries of weight 2, each key added again with weight 4) ends with 14
\* evictions.
C18_UpdateInPlace ==
    [][/\ (pc = "idle" /\ call'.op = "Add" /\ call'.key \in Present(c)) =>
             /\ LenOf(c') = LenOf(c)
             /\ Present(c') = Present(c)
             /\ c'.size = c.size + onAccount(call'.key, call'.value)
                                 - onAccount(call'.key, ValueOf(c, call'.key))
             /\ ValueOf(c', call'.key) = call'.value
             /\ KeysOf(c') = Promoted(KeysOf(c), call'.key)
             /\ c'.calls = Begin(c).calls
       /\ (pc = "evict" /\ Gone # {}) => Gone = {KeysOf(c)[1]}
       /\ (pc = "idle" /\ call'.op = "Add" /\ call'.key \notin Present(c)) =>
             /\ LenOf(c') = LenOf(c) + 1
             /\ Entries(c') = Append(Entries(c), <<call'.key, call'.value>>)
             /\ c'.size = c.size + onAccount(call'.key, call'.value)
             /\ c'.calls = Begin(c).calls
       /\ (pc' = "idle" /\ call'.op = "Add" /\ c'.keepCalls /\ c'.onEvict
             /\ c'.limit = 20 /\ call'.key = "9" /\ call'.value = "109") =>
             Len(c'.calls) = 14]_vars

\* C18's case: the update test has run to its end.
C18_Witness ==
    /\ pc = "idle" /\ call.op = "Add" /\ c.keepCalls /\ c.onEvict
    /\ c.limit = 20 /\ call.key = "9" /\ call.value = "109"
    /\ Len(c.calls) = 14

\* C19: when Add(k, v) returns, k is present with value v as the most
\* recently used entry, or the cache is empty; the loop evicts k only when
\* it is the one entry left.
C19_AddedEntryEvictedLast ==
    [][/\ (pc' = "idle" /\ call'.op = "Add") =>
             \/ Present(c') = {} /\ LenOf(c') = 0
             \/ /\ call'.key \in Present(c')
                /\ ValueOf(c', call'.key) = call'.value
                /\ KeysOf(c')[LenOf(c')] = call'.key
       /\ (pc = "evict" /\ call.key \in Gone) => LenOf(c) = 1]_vars

\* C19's case: an Add that updated or inserted, evicted others, and kept
\* its own entry next to another.
C19_Witness ==
    /\ pc = "idle" /\ call.op = "Add" /\ ret.ok
    /\ LenOf(c) = 2
    /\ KeysOf(c)[2] = call.key

\* C20: Remove of a present key k leaves every other entry with its value
\* and in its order, lowers total_weight by k's weight, leaves limit alone,
\* and reports k's entry and nothing else to onEvict.
C20_RemoveTouchesOnlyKey ==
    [][(pc = "idle" /\ call'.op = "Remove" /\ call'.key \in Present(c)) =>
          LET k == call'.key
              v == ValueOf(c, k)
          IN  /\ Entries(c') = SelectSeq(Entries(c), LAMBDA e : e[1] # k)
              /\ Present(c') = Present(c) \ {k}
              /\ c'.size = c.size - onAccount(k, v)
              /\ c'.limit = c.limit
              /\ c'.calls = IF c.onEvict THEN <<(<<k, v>>)>> ELSE <<>>]_vars

\* C20's case: a Remove that took one entry of three, reported once.
C20_Witness ==
    /\ pc = "idle" /\ call.op = "Remove" /\ ret.ok
    /\ call.len = 3 /\ LenOf(c) = 2
    /\ Len(c.calls) = 1
    /\ c.calls[1][1] = call.key

====
